---- MODULE Spec2Model ----
(***************************************************************************)
(* Model of pricingapp.py: one Streamlit session holding the product       *)
(* ledger (st.session_state.products), the "Add Product" sidebar handler,  *)
(* the "Search Prices" handler and the concurrent fan-out of               *)
(* search_all_retailers over a three-worker thread pool.                   *)
(*                                                                         *)
(* Money is fixed-point: one unit is 1/10000 of a dollar, so a whole cent  *)
(* is 100 units.  Each script run is triggered by one button click; a      *)
(* click is possible only while no script run is in progress.              *)
(***************************************************************************)
EXTENDS Integers, Sequences, FiniteSets, TLC

VARIABLES
    products,             \* st.session_state.products: sequence of rows
    button,               \* the button whose click started the latest script run
    message,              \* the status message the latest script run displayed
    sku_input,            \* value of the "Enter Product SKU" text input
    retailers_to_search,  \* value of the "Select Retailers" multiselect
    pc,                   \* position of the script thread in the search flow
    futures,              \* the futures created by executor.submit, by position
    harvested,            \* number of futures the "for future in futures" loop consumed
    results,              \* local list "results" of search_all_retailers
    shown,                \* the result list the handler received and rendered
    requests              \* URLs an HTTP GET was issued to during the latest run

vars == <<products, button, message, sku_input, retailers_to_search, pc,
          futures, harvested, results, shown, requests>>

\* ------------------------------------------------------------------ bounds

\* Largest number of rows the model lets the ledger grow to.
MaxLedger == 2

\* ------------------------------------------------------ inputs of the model

ProductNames == {"", "Widget"}
CompetitorNames == {"", "ACME"}
Skus == {"W1", "W2"}
\* Whole-cent prices in units of 1/10000 dollar: 9.99 and 10.99 dollars asked,
\* 10.49 dollars at the competitor.
YourPrices == {99900, 109900}
CompetitorPrices == {104900}
Dates == {"2024-01-01"}
SearchSkus == {"", "W1"}
\* HTTP outcomes of one GET: a response with a status code, or an exception.
StatusCodes == {200, 204, 404}

\* --------------------------------------------------------- search_retailer

\* The list "retailers" of search_all_retailers, in submission order.
Retailers == <<"Amazon", "Walmart", "Best Buy">>

\* The options (and the default) of the multiselect.
RetailerOptions == {"Amazon", "Walmart", "Best Buy"}

Selections == {RetailerOptions, {"Walmart"}, {}}

\* The f-string table "retailers" of search_retailer.
UrlOf(retailer, sku) ==
    CASE retailer = "Amazon"   -> "https://www.amazon.com/s?k=" \o sku
      [] retailer = "Walmart"  -> "https://www.walmart.com/search?q=" \o sku
      [] retailer = "Best Buy" -> "https://www.bestbuy.com/site/searchpage.jsp?st=" \o sku

\* What requests.get did: returned a response, or raised.
Response(code) == [raised |-> FALSE, status_code |-> code]
Raised == [raised |-> TRUE, status_code |-> 0]
Outcomes == {Response(c) : c \in StatusCodes} \cup {Raised}
NoOutcome == [raised |-> FALSE, status_code |-> 0]

\* Python's None, as search_retailer returns it by falling off its end.
None == [Retailer |-> "", URL |-> "", Status |-> "None"]

\* "if result:" of search_all_retailers: a dict with keys is truthy, None is not.
Truthy(result) == result # None

\* "response.status_code == 200"
StatusOk(outcome) == outcome.status_code = 200

\* search_retailer(retailer, sku), given what its requests.get did.
search_retailer(retailer, sku, outcome) ==
    IF outcome.raised
    THEN [Retailer |-> retailer, URL |-> UrlOf(retailer, sku),
          Status |-> "Error checking availability"]
    ELSE IF StatusOk(outcome)
         THEN [Retailer |-> retailer, URL |-> UrlOf(retailer, sku),
               Status |-> "Available"]
         ELSE None

\* ----------------------------------------------------- search_all_retailers

Positions == 1..Len(Retailers)

\* A future before executor.submit created it, and its life afterwards.
NoFuture == [state |-> "unsubmitted", response |-> NoOutcome, result |-> None]
NoFutures == [i \in Positions |-> NoFuture]

\* A future that reports done before its worker has finished.
DoneWithoutWaiting(future) == TRUE

\* Future.done(): what future.result() and the pool's shutdown(wait=True) wait for.
Done(future) == future.state = "finished"

Submitted == {i \in Positions : futures[i].state # "unsubmitted"}

\* Submitting only the retailers the multiselect holds.
SubmitSelected(selection) == SelectSeq(Retailers, LAMBDA r : r \in selection)

\* The names handed to executor.submit, by position in the futures list:
\* the local list "retailers", whatever the multiselect holds.
SubmitTargets(selection) == Retailers

Targets == SubmitTargets(retailers_to_search)

\* Collecting at the front of the list, as results.insert(0, result) would.
CollectAtFront(list, result) == IF Truthy(result) THEN <<result>> \o list ELSE list

\* "results.append(result)" under "if result:".
Collect(list, result) == IF Truthy(result) THEN Append(list, result) ELSE list

\* One executor.submit(search_retailer, retailer, sku) of the list comprehension.
Submit ==
    /\ pc = "submit"
    /\ LET k == Cardinality(Submitted) + 1
       IN  /\ k <= Len(Targets)
           /\ futures' = [futures EXCEPT ![k].state = "pending"]
           /\ pc' = IF k = Len(Targets) THEN "harvest" ELSE "submit"
    /\ UNCHANGED <<products, button, message, sku_input, retailers_to_search,
                   harvested, results, shown, requests>>

\* A pool worker takes the work item and search_retailer issues its requests.get.
WorkerStart(i) ==
    /\ futures[i].state = "pending"
    /\ futures' = [futures EXCEPT ![i].state = "running"]
    /\ requests' = requests \cup {UrlOf(Targets[i], sku_input)}
    /\ UNCHANGED <<products, button, message, sku_input, retailers_to_search,
                   pc, harvested, results, shown>>

\* requests.get returns or raises (at the latest on its timeout) and
\* search_retailer returns; the worker sets the future's result.
WorkerFinish(i, outcome) ==
    /\ futures[i].state = "running"
    /\ futures' = [futures EXCEPT ![i] =
           [state |-> "finished", response |-> outcome,
            result |-> search_retailer(Targets[i], sku_input, outcome)]]
    /\ UNCHANGED <<products, button, message, sku_input, retailers_to_search,
                   pc, harvested, results, shown, requests>>

\* One iteration of "for future in futures": future.result() blocks until done.
Harvest ==
    /\ pc = "harvest"
    /\ harvested < Len(Targets)
    /\ Done(futures[harvested + 1])
    /\ results' = Collect(results, futures[harvested + 1].result)
    /\ harvested' = harvested + 1
    /\ UNCHANGED <<products, button, message, sku_input, retailers_to_search,
                   pc, futures, shown, requests>>

\* The with-block exits (shutdown(wait=True)), search_all_retailers returns and
\* the handler renders what it received.
Return ==
    /\ pc = "harvest"
    /\ harvested = Len(Targets)
    /\ \A i \in Submitted : Done(futures[i])
    /\ shown' = results
    /\ message' = IF results # <<>> THEN "Found product listings"
                  ELSE "No results found for this SKU"
    /\ pc' = "idle"
    /\ UNCHANGED <<products, button, sku_input, retailers_to_search, futures,
                   harvested, results, requests>>

\* ----------------------------------------------------- "Search Prices" button

\* A handler that searches whatever the text input holds.
SkuNotChecked(sku) == TRUE

\* "if sku_input:" of the handler.
SkuGiven(sku) == sku # ""

SearchPricesButton(sku, selection) ==
    /\ pc = "idle"
    /\ button' = "search"
    /\ sku_input' = sku
    /\ retailers_to_search' = selection
    /\ futures' = NoFutures
    /\ harvested' = 0
    /\ results' = <<>>
    /\ shown' = <<>>
    /\ requests' = {}
    /\ IF SkuGiven(sku)
       THEN /\ pc' = "submit"
            /\ message' = "none"
       ELSE /\ pc' = "idle"
            /\ message' = "Please enter a SKU number"
    /\ UNCHANGED products

\* ------------------------------------------------------- "Add Product" button

\* round(x, 2): to the nearest whole cent, ties to the even cent.
Round2(x) ==
    LET r == x % 100
        down == x - r
    IN  IF r < 50 THEN down
        ELSE IF r > 50 THEN down + 100
        ELSE IF (down \div 100) % 2 = 0 THEN down ELSE down + 100

\* The representation error of the float subtraction, far below one unit:
\* over-approximated by at most one unit either way.
FloatErrors == {-1, 0, 1}

\* The difference stored without rounding.
PriceDifferenceUnrounded(your_price, competitor_price, err) ==
    your_price - competitor_price + err

\* "round(your_price - competitor_price, 2)"
PriceDifference(your_price, competitor_price, err) ==
    Round2(your_price - competitor_price + err)

\* The dict new_product.
NewProduct(product_name, sku, your_price, competitor, competitor_price, err, date) ==
    [Product_Name |-> product_name,
     SKU |-> sku,
     Your_Price |-> your_price,
     Competitor |-> competitor,
     Competitor_Price |-> competitor_price,
     Price_Difference |-> PriceDifference(your_price, competitor_price, err),
     Date_Added |-> date]

\* The new row put in front of the old ones.
ConcatInFront(frame, row) == <<row>> \o frame

\* pd.concat([st.session_state.products, pd.DataFrame([new_product])], ignore_index=True)
Concat(frame, row) == Append(frame, row)

\* "if product_name and competitor:"
FieldsGiven(product_name, competitor) == product_name # "" /\ competitor # ""

AddProductButton(product_name, sku, your_price, competitor, competitor_price, err, date) ==
    /\ pc = "idle"
    /\ Len(products) < MaxLedger
    /\ button' = "add"
    /\ IF FieldsGiven(product_name, competitor)
       THEN /\ products' = Concat(products,
                                  NewProduct(product_name, sku, your_price, competitor,
                                             competitor_price, err, date))
            /\ message' = "Product added successfully!"
       ELSE /\ products' = products
            /\ message' = "none"
    \* the rerun renders the search tab with its button not clicked
    /\ futures' = NoFutures
    /\ harvested' = 0
    /\ results' = <<>>
    /\ shown' = <<>>
    /\ requests' = {}
    /\ UNCHANGED <<sku_input, retailers_to_search, pc>>

\* ------------------------------------------------------------ specification

Init ==
    /\ products = <<>>
    /\ button = "none"
    /\ message = "none"
    /\ sku_input = ""
    /\ retailers_to_search = RetailerOptions
    /\ pc = "idle"
    /\ futures = NoFutures
    /\ harvested = 0
    /\ results = <<>>
    /\ shown = <<>>
    /\ requests = {}

Next ==
    \/ \E sku \in SearchSkus, selection \in Selections :
           SearchPricesButton(sku, selection)
    \/ Submit
    \/ \E i \in Positions : WorkerStart(i)
    \/ \E i \in Positions, outcome \in Outcomes : WorkerFinish(i, outcome)
    \/ Harvest
    \/ Return
    \/ \E product_name \in ProductNames, sku \in Skus, your_price \in YourPrices,
          competitor \in CompetitorNames, competitor_price \in CompetitorPrices,
          err \in FloatErrors, date \in Dates :
           AddProductButton(product_name, sku, your_price, competitor,
                            competitor_price, err, date)

Spec == Init /\ [][Next]_vars

\* Every started step of a search is eventually taken: the script thread and the
\* pool's workers are live OS threads, and requests.get returns or raises within
\* its 10 second timeout.
FairSpec ==
    /\ Spec
    /\ WF_vars(Submit)
    /\ WF_vars(\E i \in Positions : WorkerStart(i))
    /\ WF_vars(\E i \in Positions, outcome \in Outcomes : WorkerFinish(i, outcome))
    /\ WF_vars(Harvest)
    /\ WF_vars(Return)

\* ------------------------------------------------------------- properties

\* The handler has received and rendered the list search_all_retailers returned.
Returned == message \in {"Found product listings", "No results found for this SKU"}

Pos(retailer) == CHOOSE i \in Positions : Retailers[i] = retailer

SubmissionOrder(list) ==
    \A j, k \in 1..Len(list) : j < k => Pos(list[j].Retailer) < Pos(list[k].Retailer)

\* The results the first n futures produced, by position in the futures list.
ProducedUpTo(n) == SelectSeq([i \in 1..n |-> futures[i].result], Truthy)

Running(i) == futures[i].state \in {"pending", "running"}

SuccessClass(outcome) == ~outcome.raised /\ outcome.status_code \in 200..299

\* C1: whatever order the probes complete in, the list search_all_retailers
\* builds and returns holds the produced results in submission order (Amazon,
\* Walmart, Best Buy): at every moment it is exactly what the futures consumed
\* so far produced, by position, and the returned list is that of all three.
C1_SubmissionOrder ==
    /\ SubmissionOrder(results)
    /\ SubmissionOrder(shown)
    /\ results = ProducedUpTo(harvested)
    /\ Returned => shown = ProducedUpTo(Len(Retailers))

\* C1 witness: Best Buy's probe has completed while Walmart's is still running,
\* and the list holds Amazon's result alone.
C1_Witness ==
    /\ pc = "harvest"
    /\ harvested = 1
    /\ Len(results) = 1
    /\ results[1].Retailer = "Amazon"
    /\ futures[3].state = "finished"
    /\ Truthy(futures[3].result)
    /\ futures[2].state = "running"

\* C2 (as claimed): when every request either gets a success-class response or
\* raises, the returned list has one entry per target, in submission order,
\* Error exactly where the request raised and Available elsewhere.
C2_PartialFailure ==
    (Returned /\ \A i \in Positions :
                    futures[i].response.raised \/ SuccessClass(futures[i].response))
    => /\ Len(shown) = Len(Retailers)
       /\ \A i \in Positions :
              /\ shown[i].Retailer = Retailers[i]
              /\ shown[i].Status = IF futures[i].response.raised
                                   THEN "Error checking availability"
                                   ELSE "Available"

\* C3 (as claimed): every success-class response (any 2xx) yields a result with
\* status Available for its target, which the returned list carries.
C3_SuccessClassAvailable ==
    \A i \in Positions :
        (futures[i].state = "finished" /\ SuccessClass(futures[i].response))
        => /\ futures[i].result.Retailer = Retailers[i]
           /\ futures[i].result.Status = "Available"
           /\ Returned => \E j \in 1..Len(shown) :
                              /\ shown[j].Retailer = Retailers[i]
                              /\ shown[j].Status = "Available"

\* C4 (as claimed): a response with a non-success status code leaves no entry,
\* the returned list is as long as the number of targets whose request succeeded
\* or raised, and no entry has the status Unavailable.
C4_NonSuccessOmitted ==
    Returned =>
       /\ \A i \in Positions :
              (~futures[i].response.raised /\ ~SuccessClass(futures[i].response))
              => \A j \in 1..Len(shown) : shown[j].Retailer # Retailers[i]
       /\ Len(shown) = Cardinality({i \in Positions :
                           futures[i].response.raised \/ SuccessClass(futures[i].response)})
       /\ \A j \in 1..Len(shown) : shown[j].Status # "Unavailable"

\* With status 200 as the only response counted a success, the statements of C2
\* and C4 hold of search_all_retailers.
PartialFailureWith200 ==
    (Returned /\ \A i \in Positions :
                    futures[i].response.raised \/ StatusOk(futures[i].response))
    => /\ Len(shown) = Len(Retailers)
       /\ \A i \in Positions :
              /\ shown[i].Retailer = Retailers[i]
              /\ shown[i].Status = IF futures[i].response.raised
                                   THEN "Error checking availability"
                                   ELSE "Available"

Not200Omitted ==
    Returned =>
       /\ \A i \in Positions :
              (~futures[i].response.raised /\ ~StatusOk(futures[i].response))
              => \A j \in 1..Len(shown) : shown[j].Retailer # Retailers[i]
       /\ Len(shown) = Cardinality({i \in Positions :
                           futures[i].response.raised \/ StatusOk(futures[i].response)})
       /\ \A j \in 1..Len(shown) : shown[j].Status # "Unavailable"

\* C5: a search clicked with an empty identifier dispatches no probe and issues
\* no HTTP request, and the run shows the error message instead.
C5_EmptySkuRejected ==
    (button = "search" /\ sku_input = "")
    => /\ pc = "idle"
       /\ futures = NoFutures
       /\ requests = {}
       /\ shown = <<>>
       /\ message = "Please enter a SKU number"

\* C5 witness: the search button was clicked with the text input empty.
C5_Witness ==
    /\ button = "search"
    /\ sku_input = ""
    /\ message = "Please enter a SKU number"

\* No result list and no outcome message is rendered while the search runs or a
\* probe is pending or running; once rendered, every future has finished.
C6_NoPartialResults ==
    /\ Returned => \A i \in Positions : futures[i].state = "finished"
    /\ (\E i \in Positions : Running(i)) => (shown = <<>> /\ message = "none")
    /\ pc # "idle" => (shown = <<>> /\ message = "none")

\* C6: the caller sees a result list only once every dispatched probe has reached
\* its outcome (Available, Error or omitted), never a partial one, and a search
\* that was started eventually returns.
C6_BlocksUntilAllDone ==
    /\ []C6_NoPartialResults
    /\ (pc = "submit") ~> Returned

\* C6 witness: the search returned after probes that ended in each of the three
\* outcomes (Available, Error, omitted).
C6_Witness ==
    /\ Returned
    /\ futures[1].response.raised
    /\ futures[2].response = Response(404)
    /\ futures[3].response = Response(200)
    /\ Len(shown) = 2

\* C10: whatever the multiselect holds, a search dispatches the three fixed
\* targets and requests exactly their three URLs, and the results returned are
\* what those three probes produced.
C10_AllRetailersProbed ==
    /\ pc = "harvest" => Submitted = Positions
    /\ requests \subseteq {UrlOf(Retailers[i], sku_input) : i \in Positions}
    /\ Returned => /\ Submitted = Positions
                   /\ requests = {UrlOf(Retailers[i], sku_input) : i \in Positions}
                   /\ \A i \in Positions :
                          futures[i].response.raised \/ StatusOk(futures[i].response)
                          => \E j \in 1..Len(shown) : shown[j].Retailer = Retailers[i]

\* C10 witness: a search returned three results with nothing selected.
C10_Witness ==
    /\ Returned
    /\ retailers_to_search = {}
    /\ Len(shown) = 3
    /\ Cardinality(requests) = 3

\* A click on "Add Product" with the given widget values.
AddClick(product_name, sku, your_price, competitor, competitor_price) ==
    \E err \in FloatErrors, date \in Dates :
        AddProductButton(product_name, sku, your_price, competitor,
                         competitor_price, err, date)

\* C7: each successful add makes the ledger one row longer, keeps the old ledger
\* as a prefix and puts the row of the values entered at the end, whether or not
\* its SKU is in the ledger already; no other step changes the ledger.  From the
\* empty ledger, N successful adds so leave N rows in call order.
C7_AppendInCallOrder ==
    [][/\ \A product_name \in ProductNames \ {""}, sku \in Skus, your_price \in YourPrices,
             competitor \in CompetitorNames \ {""}, competitor_price \in CompetitorPrices :
              AddClick(product_name, sku, your_price, competitor, competitor_price)
              => /\ Len(products') = Len(products) + 1
                 /\ SubSeq(products', 1, Len(products)) = products
                 /\ products'[Len(products')].Product_Name = product_name
                 /\ products'[Len(products')].SKU = sku
                 /\ products'[Len(products')].Your_Price = your_price
                 /\ products'[Len(products')].Competitor = competitor
                 /\ products'[Len(products')].Competitor_Price = competitor_price
                 /\ message' = "Product added successfully!"
       /\ products' # products
              => \E product_name \in ProductNames \ {""}, sku \in Skus,
                    your_price \in YourPrices, competitor \in CompetitorNames \ {""},
                    competitor_price \in CompetitorPrices :
                     AddClick(product_name, sku, your_price, competitor, competitor_price)
      ]_vars

\* C7 witness: two successful adds left two different rows with the same SKU.
C7_Witness ==
    /\ Len(products) = 2
    /\ products[1].SKU = products[2].SKU
    /\ products[1] # products[2]
    /\ message = "Product added successfully!"

\* C8 (as claimed): an add with an empty product name or an empty competitor
\* leaves the ledger unchanged and shows a validation message.
C8_InvalidAddReported ==
    [][\A product_name \in ProductNames, sku \in Skus, your_price \in YourPrices,
          competitor \in CompetitorNames, competitor_price \in CompetitorPrices :
           (/\ product_name = "" \/ competitor = ""
            /\ AddClick(product_name, sku, your_price, competitor, competitor_price))
           => /\ products' = products
              /\ message' # "none"
      ]_vars

\* The part of C8 the handler keeps: such an add leaves the ledger unchanged.
InvalidAddLeavesLedger ==
    [][\A product_name \in ProductNames, sku \in Skus, your_price \in YourPrices,
          competitor \in CompetitorNames, competitor_price \in CompetitorPrices :
           (/\ product_name = "" \/ competitor = ""
            /\ AddClick(product_name, sku, your_price, competitor, competitor_price))
           => products' = products
      ]_vars

\* Every row's price difference is its own "your price" minus its own competitor
\* price, a whole number of cents.
C9_RowDifference ==
    \A i \in 1..Len(products) :
        /\ products[i].Price_Difference
               = products[i].Your_Price - products[i].Competitor_Price
        /\ products[i].Price_Difference % 100 = 0

\* C9: for whole-cent prices every row's price difference is its own "your
\* price" minus its own competitor price rounded to 2 fractional digits, from the
\* step that creates the row on: no later step changes a row's prices or its
\* stored difference.
C9_DifferenceFixed ==
    /\ []C9_RowDifference
    /\ [][\A i \in 1..Len(products) :
              /\ i <= Len(products')
              /\ products'[i].Price_Difference = products[i].Price_Difference
              /\ products'[i].Your_Price = products[i].Your_Price
              /\ products'[i].Competitor_Price = products[i].Competitor_Price]_vars

\* C9 witness: a row for 9.99 against 10.49 holds -0.50, and a row was added
\* after it.
C9_Witness ==
    /\ Len(products) = 2
    /\ products[1].Your_Price = 99900
    /\ products[1].Competitor_Price = 104900
    /\ products[1].Price_Difference = -5000

====
